---- MODULE Spec2Model ----
(***************************************************************************)
(* EcoFinance Pro (src/EcoFinance_pro.py): a Streamlit script over one      *)
(* SQLite table.  Every user interaction re-runs the script from top to     *)
(* bottom; a run inserts a row when the form was submitted, answers the     *)
(* question held by the text input, and renders the simulation or the       *)
(* report when its button was pressed.  An uncaught exception ends the run. *)
(*                                                                          *)
(* Floats are modelled exactly: the captured quantities are whole numbers,  *)
(* a quotient is kept as the pair num/den (den = 0 gives inf or nan, as     *)
(* numpy float64 division does), and a formatted number is the quotient     *)
(* rounded to the decimals of its format specifier.                         *)
(***************************************************************************)
EXTENDS Integers, Sequences, FiniteSets, TLC

VARIABLES operaciones_mineras, sqlite_sequence, normas_peru, pregunta, pantalla

vars == <<operaciones_mineras, sqlite_sequence, normas_peru, pregunta, pantalla>>

(* ------------------------------ bounds --------------------------------- *)

\* Rows the table may hold before the form stops being submitted.
MaxRegistros == 2

\* Values typed into the widgets (each widget then applies its own limits).
FechaTecleada == {20240115}
ProcesoTecleado == {"Extraccion", "Transporte", "Relaves", "Otro"}
AguaTecleada == {-1, 0, 10}
EnergiaTecleada == {-1, 100}
Co2Tecleado == {-1, 0, 1500}
ProduccionTecleada == {-1, 5}
InversionTecleada == {-1, 3, 1000000}
PlazoTecleado == {0, 5, 10, 11}
TipoTecleado == {"Filtros CO2", "Energia Solar", "Carbon"}

\* Questions typed into the chat box, as sequences of characters.
PreguntaAgua == <<"A", "g", "u", "a">>
PreguntaEmision == <<"E", "m", "i", "s", "i", "o", "n">>
PreguntaAmbas == <<"E", "M", "I", "S", "I", "O", "N", " ", "a", "g", "u", "a">>
PreguntaOtra == <<"m", "u", "l", "t", "a">>
Preguntas == {PreguntaAgua, PreguntaEmision, PreguntaAmbas, PreguntaOtra}

(* ------------------------- program constants --------------------------- *)

opciones_proceso == <<"Extraccion", "Procesamiento", "Transporte", "Relaves">>
opciones_tecnologia == <<"Filtros CO2", "Recirculacion Agua", "Energia Solar", "Gestion de Relaves">>

min_agua == 0
min_energia == 0
min_co2 == 0
min_produccion == 0
min_inversion == 0
plazo_min == 1
plazo_max == 10

precio_ingreso == 5000
precio_gasto == 3500
precio_inversion_ambiental == 40

dias_periodo == 30
limite_co2_dia == 50
umbral_energia == 100
\* 1.5 ton, the mean CO2 threshold of the report, as the quotient 3/2
umbral_co2_num == 3
umbral_co2_den == 2
\* 0.2, the savings rate of the simulation, as the quotient 2/10
tasa_ahorro_num == 2
tasa_ahorro_den == 10

normas_iniciales ==
  [k \in {"Ley General del Ambiente", "Limite CO2 Mineria", "Agua", "Multas"} |->
     CASE k = "Ley General del Ambiente" -> "Ley N 28611"
       [] k = "Limite CO2 Mineria" -> "50 ton/dia (DS N 003-2014-MINAM)"
       [] k = "Agua" -> "Limite 5000 m3/dia (Ley de Recursos Hidricos)"
       [] OTHER -> "Hasta 10,000 UIT por incumplimiento"]

(* ------------------------------ widgets -------------------------------- *)

\* st.number_input(min_value=m): the values the widget can hand to the script.
number_input_sin_minimo(tecleado, m) == tecleado
number_input(tecleado, m) == {v \in tecleado : v >= m}

\* st.slider(lo, hi)
slider(tecleado, lo, hi) == {v \in tecleado : lo <= v /\ v <= hi}

\* st.selectbox(options)
selectbox(tecleado, opciones) ==
  {v \in tecleado : \E i \in 1..Len(opciones) : opciones[i] = v}

(* --------------------------- the table --------------------------------- *)

\* The tuple bound to the INSERT: the identity key, the six captured values,
\* the constant material and waste, and the three derived amounts.
Fila_multiplicadores_cambiados(id, fecha, proceso, agua, energia, co2, produccion) ==
  [id |-> id, fecha |-> fecha, proceso |-> proceso, material |-> "Cobre",
   agua_m3 |-> agua, energia_kwh |-> energia, co2_ton |-> co2, residuos_ton |-> 0,
   produccion_ton |-> produccion,
   ingresos_soles |-> produccion * precio_gasto,
   gastos_soles |-> produccion * precio_ingreso,
   inversion_ambiental_soles |-> co2 * precio_inversion_ambiental]
Fila(id, fecha, proceso, agua, energia, co2, produccion) ==
  [id |-> id, fecha |-> fecha, proceso |-> proceso, material |-> "Cobre",
   agua_m3 |-> agua, energia_kwh |-> energia, co2_ton |-> co2, residuos_ton |-> 0,
   produccion_ton |-> produccion,
   ingresos_soles |-> produccion * precio_ingreso,
   gastos_soles |-> produccion * precio_gasto,
   inversion_ambiental_soles |-> co2 * precio_inversion_ambiental]

\* INSERT INTO operaciones_mineras VALUES (NULL, ...): the table is its set of
\* rows; the NULL key is filled by AUTOINCREMENT (see Corrida).
INSERT(tabla, fila) == tabla \cup {fila}

RECURSIVE PorId(_, _)
\* The rows of a set, by key: ascending, or descending.
PorId(filas, ascendente) ==
  IF filas = {} THEN <<>>
  ELSE LET r == CHOOSE x \in filas :
                  \A y \in filas : IF ascendente THEN x.id <= y.id ELSE x.id >= y.id
       IN  <<r>> \o PorId(filas \ {r}, ascendente)

\* pd.read_sql("SELECT * FROM operaciones_mineras"): every row, in the order
\* of the table scan, which is the order of the integer primary key.
read_sql_descendente(tabla) == PorId(tabla, FALSE)
read_sql(tabla) == PorId(tabla, TRUE)

\* The submit branch of the form: the INSERT runs only in the run the submit
\* button started.
form_mineria_sin_boton(enviado, tabla, fila) == INSERT(tabla, fila)
form_mineria(enviado, tabla, fila) == IF enviado THEN INSERT(tabla, fila) ELSE tabla

(* ------------------------------ strings -------------------------------- *)

\* str.lower(), on the characters the questions use.
LowerChar(c) ==
  CASE c = "A" -> "a" [] c = "G" -> "g" [] c = "U" -> "u" [] c = "E" -> "e"
    [] c = "M" -> "m" [] c = "I" -> "i" [] c = "S" -> "s" [] c = "O" -> "o"
    [] c = "N" -> "n" [] OTHER -> c
lower(s) == [i \in 1..Len(s) |-> LowerChar(s[i])]

\* `sub in s`
Contiene(s, sub) ==
  \E i \in 1..(Len(s) - Len(sub) + 1) : SubSeq(s, i, i + Len(sub) - 1) = sub

disparador_agua == <<"a", "g", "u", "a">>
disparador_emision == <<"e", "m", "i", "s", "i", "o", "n">>

\* The if/elif chain of consulta_ia.
Intent_sin_lower(q) ==
  IF Contiene(q, disparador_agua) THEN "agua"
  ELSE IF Contiene(q, disparador_emision) THEN "emision"
  ELSE "ninguno"
Intent(q) ==
  IF Contiene(lower(q), disparador_agua) THEN "agua"
  ELSE IF Contiene(lower(q), disparador_emision) THEN "emision"
  ELSE "ninguno"

(* ------------------------------ numbers -------------------------------- *)

RECURSIVE Suma(_, _)
\* df[col].sum()
Suma(df, col) == IF df = <<>> THEN 0 ELSE df[1][col] + Suma(Tail(df), col)

Cociente(n, d) == [num |-> n, den |-> d]
EsNaN(r) == r.den = 0 /\ r.num = 0
EsInf(r) == r.den = 0 /\ r.num # 0
\* a > b on float64 quotients of non-negative sums, neither of them nan
Mayor(a, b) == a.num * b.den > b.num * a.den

\* f"{x:.Nf}": the quotient rounded to N decimals (escala = 10^N), ties to even.
Formato(r, escala) ==
  IF EsNaN(r) THEN [clase |-> "nan", valor |-> 0]
  ELSE IF EsInf(r) THEN [clase |-> "inf", valor |-> 0]
  ELSE LET n == r.num * escala
           q == n \div r.den
           resto == n % r.den
       IN  [clase |-> "numero",
            valor |-> IF 2 * resto > r.den \/ (2 * resto = r.den /\ q % 2 = 1)
                      THEN q + 1 ELSE q]

(* --------------------------- consulta_ia ------------------------------- *)

\* df.groupby('proceso'): the group keys present, in sorted key order.
claves_ordenadas == <<"Extraccion", "Procesamiento", "Relaves", "Transporte">>
Claves(df) ==
  SelectSeq(claves_ordenadas, LAMBDA p : \E i \in 1..Len(df) : df[i].proceso = p)
Grupo(df, p) == SelectSeq(df, LAMBDA r : r.proceso = p)

\* groupby('proceso').apply(lambda x: x['produccion_ton'].sum()/x['agua_m3'].sum()):
\* one quotient per group present, whatever its water sum.
RazonPorGrupo(df) ==
  LET k == Claves(df)
  IN  [i \in 1..Len(k) |->
         LET x == Grupo(df, k[i])
         IN  [proceso |-> k[i],
              razon |-> Cociente(Suma(x, "produccion_ton"), Suma(x, "agua_m3"))]]

\* Position of entry i under sort_values(ascending=False): larger quotients
\* first, equal quotients in their former order, nan last.
Precede(g, j, i) ==
  IF EsNaN(g[i].razon) THEN (~EsNaN(g[j].razon)) \/ j < i
  ELSE ~EsNaN(g[j].razon) /\
       (Mayor(g[j].razon, g[i].razon) \/ (~Mayor(g[i].razon, g[j].razon) /\ j < i))
Puesto(g, i) == 1 + Cardinality({j \in 1..Len(g) : j # i /\ Precede(g, j, i)})
sort_values_desc(g) ==
  [k \in 1..Len(g) |-> g[CHOOSE i \in 1..Len(g) : Puesto(g, i) = k]]

\* eficiencia, line 77-79
Eficiencia(df) == sort_values_desc(RazonPorGrupo(df))

\* eficiencia.max(): the largest quotient that is not nan; nan when none is.
Maximo(e) ==
  IF \A i \in 1..Len(e) : EsNaN(e[i].razon) THEN Cociente(0, 0)
  ELSE e[CHOOSE i \in 1..Len(e) :
           /\ ~EsNaN(e[i].razon)
           /\ \A j \in 1..Len(e) : EsNaN(e[j].razon) \/ ~Mayor(e[j].razon, e[i].razon)].razon

\* `eficiencia.idxmax` without the call: the bound method itself, which the
\* f-string renders as its repr.
metodo_idxmax == "<bound method Series.idxmax>"

\* df.groupby('proceso')['co2_ton'].sum().idxmax(): the first key, in key
\* order, whose CO2 sum is the largest.
ProcesoClave(df) ==
  LET k == Claves(df)
      s(i) == Suma(Grupo(df, k[i]), "co2_ton")
  IN  k[CHOOSE i \in 1..Len(k) :
          /\ \A j \in 1..Len(k) : s(j) <= s(i)
          /\ \A j \in 1..(i - 1) : s(j) < s(i)]

\* {'OK' if df['co2_ton'].sum()/30 < 50 else 'X'}
CumpleCO2(df) == Suma(df, "co2_ton") < limite_co2_dia * dias_periodo

\* The legal section every answer ends with.
BaseLegal(normas) ==
  <<normas["Ley General del Ambiente"], normas["Limite CO2 Mineria"], normas["Multas"]>>

NoMostrado == [estado |-> "none"]

\* consulta_ia(pregunta, df): the outcomes of one call.  On an empty frame
\* the water branch depends on the pandas build (apply yields an empty
\* DataFrame whose sort_values raises, or an empty Series whose max is nan),
\* and the emission branch raises in idxmax().
consulta_ia(q, df, normas) ==
  LET intent == Intent(q) IN
  IF intent = "agua" THEN
    IF df = <<>> THEN
      {[estado |-> "error", intent |-> "agua", error |-> "TypeError"],
       [estado |-> "ok", intent |-> "agua", mejor_proceso |-> metodo_idxmax,
        eficiencia_max |-> Formato(Cociente(0, 0), 100),
        agua_dia |-> Formato(Cociente(0, dias_periodo), 1),
        base_legal |-> BaseLegal(normas)]}
    ELSE
      {[estado |-> "ok", intent |-> "agua", mejor_proceso |-> metodo_idxmax,
        eficiencia_max |-> Formato(Maximo(Eficiencia(df)), 100),
        agua_dia |-> Formato(Cociente(Suma(df, "agua_m3"), dias_periodo), 1),
        base_legal |-> BaseLegal(normas)]}
  ELSE IF intent = "emision" THEN
    IF df = <<>> THEN
      {[estado |-> "error", intent |-> "emision", error |-> "ValueError"]}
    ELSE
      {[estado |-> "ok", intent |-> "emision",
        total_co2 |-> Formato(Cociente(Suma(df, "co2_ton"), 1), 10),
        proceso_clave |-> ProcesoClave(df),
        cumplimiento |-> CumpleCO2(df),
        base_legal |-> BaseLegal(normas)]}
  ELSE
    {[estado |-> "ok", intent |-> "ninguno", base_legal |-> BaseLegal(normas)]}

\* Tab 3: the answer is rendered whenever the text input holds a question.
tab3(q, tabla, normas) ==
  IF q = <<>> THEN {NoMostrado} ELSE consulta_ia(q, read_sql(tabla), normas)

(* ------------------------------ tab 4 ---------------------------------- *)

\* The results dictionary of the simulation.
Simular_roi_fijo(inversion, plazo, tipo) ==
  [estado |-> "ok", inversion |-> inversion, plazo |-> plazo, tipo |-> tipo,
   reduccion_co2 |-> "15-25%",
   ahorro_anual |-> Formato(Cociente(inversion * tasa_ahorro_num, tasa_ahorro_den), 1).valor,
   roi |-> 3,
   cumplimiento_legal |-> "100%"]
Simular(inversion, plazo, tipo) ==
  [estado |-> "ok", inversion |-> inversion, plazo |-> plazo, tipo |-> tipo,
   reduccion_co2 |-> "15-25%",
   ahorro_anual |-> Formato(Cociente(inversion * tasa_ahorro_num, tasa_ahorro_den), 1).valor,
   roi |-> plazo,
   cumplimiento_legal |-> "100%"]

(* ------------------------------ tab 5 ---------------------------------- *)

\* df[col].mean() < num/den; a nan mean (empty frame) compares False.
MediaMenor(df, col, num, den) ==
  Len(df) > 0 /\ Suma(df, col) * den < num * Len(df)

\* The executive report.  On an empty frame the sums are 0 and the first
\* quotient is 0/0: ZeroDivisionError when the empty columns sum to Python
\* ints, nan when they sum to float64.
Reporte(df) ==
  LET r == [estado |-> "ok",
            produccion_total |-> Formato(Cociente(Suma(df, "produccion_ton"), 1), 1),
            intensidad_hidrica |->
              Formato(Cociente(Suma(df, "agua_m3"), Suma(df, "produccion_ton")), 10),
            emisiones_por_sol |->
              Formato(Cociente(Suma(df, "co2_ton"), Suma(df, "ingresos_soles")), 10000),
            tendencia |-> IF MediaMenor(df, "energia_kwh", umbral_energia, 1)
                          THEN "mejorado" ELSE "empeorado",
            niveles_co2 |-> IF MediaMenor(df, "co2_ton", umbral_co2_num, umbral_co2_den)
                            THEN "Dentro" ELSE "Fuera",
            agua_dia |-> Formato(Cociente(Suma(df, "agua_m3"), dias_periodo), 1)]
  IN  IF df = <<>> THEN {[estado |-> "error", error |-> "ZeroDivisionError"], r} ELSE {r}

(* ------------------------------ the runs ------------------------------- *)

\* The values of the six form widgets.
Formulario(fecha, proceso, agua, energia, co2, produccion) ==
  [fecha |-> fecha, proceso |-> proceso, agua |-> agua, energia |-> energia,
   co2 |-> co2, produccion |-> produccion]

\* The values the form widgets hold before anything is entered.
FormularioPorDefecto ==
  Formulario(20240115, opciones_proceso[1], min_agua, min_energia, min_co2, min_produccion)

\* One run of the script: the form's submit branch, tab 3, tab 4, tab 5, in
\* that order; an exception raised in tab 3 ends the run before tab 4.  `sims` holds the
\* results tab 4 can render in this run, one per setting of its widgets.
Corrida(evento, enviado, f, q, sims, reporte_pedido) ==
  /\ operaciones_mineras' =
       form_mineria(enviado, operaciones_mineras,
                    Fila(sqlite_sequence + 1, f.fecha, f.proceso, f.agua, f.energia,
                         f.co2, f.produccion))
  /\ sqlite_sequence' = IF enviado THEN sqlite_sequence + 1 ELSE sqlite_sequence
  /\ pregunta' = q
  /\ UNCHANGED normas_peru
  /\ \E ia \in tab3(q, operaciones_mineras', normas_peru) :
       IF ia.estado = "error"
       THEN pantalla' = [evento |-> evento,
                         entrada |-> IF enviado THEN f ELSE NoMostrado, ia |-> ia,
                         sim |-> NoMostrado, reporte |-> NoMostrado]
       ELSE \E sim \in sims,
               rep \in (IF reporte_pedido THEN Reporte(read_sql(operaciones_mineras'))
                        ELSE {NoMostrado}) :
              pantalla' = [evento |-> evento,
                           entrada |-> IF enviado THEN f ELSE NoMostrado, ia |-> ia,
                           sim |-> sim, reporte |-> rep]

Init ==
  /\ operaciones_mineras = {}
  /\ sqlite_sequence = 0
  /\ normas_peru = normas_iniciales
  /\ pregunta = <<>>
  /\ pantalla = [evento |-> "inicio", entrada |-> NoMostrado, ia |-> NoMostrado,
                 sim |-> NoMostrado, reporte |-> NoMostrado]

\* "Guardar Datos": the form is submitted with the values its widgets hold.
GuardarDatos ==
  /\ Cardinality(operaciones_mineras) < MaxRegistros
  /\ \E fecha \in FechaTecleada,
        proceso \in selectbox(ProcesoTecleado, opciones_proceso),
        agua \in number_input(AguaTecleada, min_agua),
        energia \in number_input(EnergiaTecleada, min_energia),
        co2 \in number_input(Co2Tecleado, min_co2),
        produccion \in number_input(ProduccionTecleada, min_produccion) :
       Corrida("guardar", TRUE,
               Formulario(fecha, proceso, agua, energia, co2, produccion),
               pregunta, {NoMostrado}, FALSE)

\* The text input changes (a new question, or the box is cleared).
Preguntar ==
  \E q \in Preguntas \cup {<<>>} :
    /\ q # pregunta
    /\ Corrida("preguntar", FALSE, FormularioPorDefecto, q, {NoMostrado}, FALSE)

\* "Simular Impacto"
SimularImpacto ==
  Corrida("simular", FALSE, FormularioPorDefecto, pregunta,
          {Simular(inversion, plazo, tipo) :
             inversion \in number_input(InversionTecleada, min_inversion),
             plazo \in slider(PlazoTecleado, plazo_min, plazo_max),
             tipo \in selectbox(TipoTecleado, opciones_tecnologia)},
          FALSE)

\* "Generar Reporte"
GenerarReporte ==
  Corrida("reporte", FALSE, FormularioPorDefecto, pregunta, {NoMostrado}, TRUE)

Next == GuardarDatos \/ Preguntar \/ SimularImpacto \/ GenerarReporte

Spec == Init /\ [][Next]_vars

(* ------------------------------ claims --------------------------------- *)

df_actual == read_sql(operaciones_mineras)

\* C1: every step either leaves the rows read back unchanged, or is a form
\* submission after which the rows read back are the former rows, in their
\* former order, followed by one row that carries the six submitted values.
C1_SoloSeAgregaAlFinal ==
  [][LET a == read_sql(operaciones_mineras)
         b == read_sql(operaciones_mineras')
     IN  \/ b = a
         \/ /\ pantalla'.evento = "guardar"
            /\ Len(b) = Len(a) + 1
            /\ SubSeq(b, 1, Len(a)) = a
            /\ b[Len(b)].fecha = pantalla'.entrada.fecha
            /\ b[Len(b)].proceso = pantalla'.entrada.proceso
            /\ b[Len(b)].agua_m3 = pantalla'.entrada.agua
            /\ b[Len(b)].energia_kwh = pantalla'.entrada.energia
            /\ b[Len(b)].co2_ton = pantalla'.entrada.co2
            /\ b[Len(b)].produccion_ton = pantalla'.entrada.produccion]_vars

\* C1 witness: two rows were appended, the second differing from the first.
C1_DosFilasDistintas ==
  /\ pantalla.evento = "guardar"
  /\ Len(df_actual) = 2
  /\ df_actual[1].proceso # df_actual[2].proceso
  /\ df_actual[2].proceso = pantalla.entrada.proceso

C3_CamposDerivados ==
  \A r \in operaciones_mineras :
    /\ r.ingresos_soles = r.produccion_ton * 5000
    /\ r.gastos_soles = r.produccion_ton * 3500
    /\ r.inversion_ambiental_soles = r.co2_ton * 40

\* C3 witness: a row with production and emissions above zero is stored and
\* a later read-only run has happened.
C3_FilaConProduccion ==
  /\ pantalla.evento = "reporte"
  /\ \E r \in operaciones_mineras :
       r.produccion_ton = 5 /\ r.ingresos_soles = 25000 /\ r.co2_ton = 1500

\* C4: the emissions answer marks compliance exactly when the daily CO2 rate
\* (total / 30) is at most the limit of 50, the limit itself included.
C4_VeredictoHastaElLimite ==
  (pantalla.ia.estado = "ok" /\ pantalla.ia.intent = "emision") =>
    (pantalla.ia.cumplimiento = (Suma(df_actual, "co2_ton") <= 50 * 30))

\* The case-insensitive occurrence of a trigger in a question.
ApareceSinCaso(q, t) ==
  \E i \in 1..Len(q) :
    /\ i + Len(t) - 1 <= Len(q)
    /\ \A k \in 1..Len(t) : LowerChar(q[i + k - 1]) = t[k]

\* C5: a question with the water trigger gets the water analysis, also when
\* it holds the emission trigger; one with the emission trigger alone gets
\* the emissions analysis; one with neither gets the legal section alone.
C5_SeleccionDeIntent ==
  pregunta # <<>> =>
    /\ pantalla.ia.estado # "none"
    /\ ApareceSinCaso(pregunta, <<"a", "g", "u", "a">>) =>
         /\ pantalla.ia.intent = "agua"
         /\ pantalla.ia.estado = "ok" => "eficiencia_max" \in DOMAIN pantalla.ia
    /\ (/\ ~ApareceSinCaso(pregunta, <<"a", "g", "u", "a">>)
        /\ ApareceSinCaso(pregunta, <<"e", "m", "i", "s", "i", "o", "n">>)) =>
         /\ pantalla.ia.intent = "emision"
         /\ pantalla.ia.estado = "ok" => "total_co2" \in DOMAIN pantalla.ia
    /\ (/\ ~ApareceSinCaso(pregunta, <<"a", "g", "u", "a">>)
        /\ ~ApareceSinCaso(pregunta, <<"e", "m", "i", "s", "i", "o", "n">>)) =>
         /\ pantalla.ia.intent = "ninguno"
         /\ DOMAIN pantalla.ia = {"estado", "intent", "base_legal"}

\* C5 witness: a question holding both triggers, the water one in capitals,
\* was answered with the water analysis over stored rows.
C5_AmbosDisparadores ==
  /\ pregunta = PreguntaAmbas
  /\ operaciones_mineras # {}
  /\ pantalla.ia.estado = "ok"
  /\ pantalla.ia.intent = "agua"

\* C6: with no rows stored, the water answer, the emissions answer and the
\* report each fail with InsufficientDataError.
C6_SinDatosFalla ==
  operaciones_mineras = {} =>
    /\ (pantalla.ia.estado # "none" /\ pantalla.ia.intent \in {"agua", "emision"}) =>
         (pantalla.ia.estado = "error" /\ pantalla.ia.error = "InsufficientDataError")
    /\ (pantalla.evento = "reporte" /\ pantalla.ia.estado # "error") =>
         (pantalla.reporte.estado = "error"
          /\ pantalla.reporte.error = "InsufficientDataError")

\* C7: the ranking behind a water answer has one entry per process whose
\* water sum is not zero, and none whose water sum is zero.
C7_RankingSinDenominadorCero ==
  (pantalla.ia.estado = "ok" /\ pantalla.ia.intent = "agua" /\ df_actual # <<>>) =>
    LET e == Eficiencia(df_actual)
    IN  /\ \A i \in 1..Len(e) : e[i].razon.den # 0
        /\ {e[i].proceso : i \in 1..Len(e)} =
             {r.proceso : r \in {x \in operaciones_mineras :
                                   Suma(Grupo(df_actual, x.proceso), "agua_m3") # 0}}

\* C8: the best process of a water answer over a non-empty ranking is the
\* process of the ranking's first entry.
C8_MejorProcesoEsElPrimero ==
  (pantalla.ia.estado = "ok" /\ pantalla.ia.intent = "agua" /\ df_actual # <<>>) =>
    pantalla.ia.mejor_proceso = Eficiencia(df_actual)[1].proceso

\* C9: a run started by a question, the simulation button or the report
\* button leaves the stored rows and the table of norms as they were, and
\* the table of norms never differs from the one loaded at start.
C9_LecturasNoEscriben ==
  [][/\ pantalla'.evento \in {"preguntar", "simular", "reporte"} =>
          /\ operaciones_mineras' = operaciones_mineras
          /\ sqlite_sequence' = sqlite_sequence
     /\ normas_peru' = normas_peru]_vars

\* C9 witness: a simulation was rendered over a table that holds rows.
C9_SimulacionConFilas ==
  /\ pantalla.evento = "simular"
  /\ pantalla.sim.estado = "ok"
  /\ Cardinality(operaciones_mineras) = 2

====
